---- MODULE Spec2Model ----
(***************************************************************************)
(* Model of prometheus-enviro-exporter: the sensor adapters (sensors/hw.py),*)
(* the sensor aggregate (sensors/core.py, sensors/factory.py), the loop     *)
(* rate limiter, the sampling loop, the start of the program and the        *)
(* posting threads (prometheus-enviro-exporter.py).                         *)
(*                                                                          *)
(* Time is counted in whole seconds (ticks of time.perf_counter).  Sensor   *)
(* values are kept in thousandths of their unit, so that the unit           *)
(* conversions of the adapters (x100, /100, /1000) are computed exactly.    *)
(***************************************************************************)
EXTENDS Integers, Sequences, FiniteSets, TLC

VARIABLES
    enviro,            \* args.enviro: device is an Enviro (no gas / PM sensors)
    temperature_factor,\* args.temperature_factor in thousandths (0: unset or 0.0)
    period,            \* args.update_period
    sensors,           \* SensorCollection._sensors, in construction order
    pc,                \* position of the sampling thread
    cycles,            \* number of loop iterations started
    hw,                \* what each device does when it is read in this cycle
    sample,            \* the ambient condition of this cycle (selects the readings)
    values,            \* the dict 'values' of the current iteration
    sensor_idx,        \* position of the generator inside all(...)
    calls,             \* adapters whose update was called by the current aggregate update
    rets,              \* what those calls returned, in call order
    bus_log,           \* driver / bus operations of the current aggregate update
    update_ok,         \* result of sensor.update(values), once it has returned
    set_idx,           \* next statement of the metric block (lines 254-271)
    gauge,             \* value of every Gauge
    hist_count,        \* number of observations of every Histogram
    ERROR_COUNTER,     \* Counter enviro_errors
    LOOP_UPDATE_TIME,  \* Counter enviro_update_time_seconds
    time_incs,         \* number of LOOP_UPDATE_TIME.inc calls so far
    now,               \* time.perf_counter()
    time_ref,          \* LoopRateLimiter._time_ref
    sleep_time,        \* LoopRateLimiter._sleep_time
    update_start,      \* local update_start of the loop
    slept,             \* arguments of the time.sleep calls of the limiter's last sleep()
    work,              \* processing time of the current iteration (limiter harness)
    short_run,         \* every iteration so far took less than one period (limiter harness)
    bus_busy,          \* the bus operations in progress, as [sensor, op]
    bus_plan,          \* the bus operations the adapter call in progress has yet to begin
    no_sleep_run,      \* consecutive finished iterations of zero processing time in which
                       \* sleep() did not call time.sleep (limiter harness)
    influxdb,          \* args.influxdb: the InfluxDB posting thread is started
    luftdaten,         \* args.luftdaten: the Luftdaten posting thread is started
    sink_pc,           \* position of each posting thread
    sink_idx,          \* next entry of the dict display of collect_all_data, per thread
    sensor_data,       \* the dict collect_all_data is building / has returned, per thread
    sink_posts,        \* number of post attempts each posting thread has completed
    sink_errors,       \* number of logging.error calls of each posting thread
    sink_slept,        \* arguments of the time.sleep calls of each posting thread
    post_result        \* how the last post attempt of each posting thread ended

vars == <<enviro, temperature_factor, period, sensors, pc, cycles, hw, sample, values,
          sensor_idx, calls, rets, bus_log, update_ok, set_idx, gauge, hist_count,
          ERROR_COUNTER, LOOP_UPDATE_TIME, time_incs, now, time_ref, sleep_time,
          update_start, slept, work, short_run, no_sleep_run, bus_busy, bus_plan, influxdb, luftdaten, sink_pc, sink_idx,
          sensor_data, sink_posts, sink_errors, sink_slept, post_result>>

----------------------------------------------------------------------------
(* Bounds of the model *)

\* iterations of the sampling loop that are explored
MaxCycles == 2
\* longest time one driver read (or the bus rescan) takes, in seconds
MaxReadTime == 1
\* longest time by which time.sleep overshoots the requested duration
MaxOversleep == 1
\* largest update period of the sampling loop specification
MaxPeriod == 2
\* number of ambient conditions the sensors can be read in
MaxSample == 2
\* largest update period of the limiter specification
MaxLimiterPeriod == 2
\* longest short processing time of the limiter specification; a stalled
\* iteration takes 100 periods and up to MaxWork more
MaxWork == 2
\* the limiter specification starts no iteration later than
\* (100 + MaxExtraPeriods) periods after the start
MaxExtraPeriods == 3
\* post attempts of each posting thread that are explored
MaxPosts == 2

----------------------------------------------------------------------------
(* Program constants *)

\* time.sleep(2) of _reset_i2c
I2C_SETTLE_SECONDS == 2
\* 100 * self._period: largest lag of the reference behind real time
MAX_LAG_PERIODS == 100
\* default of INFLUXDB_TIME_BETWEEN_POSTS, in seconds
INFLUXDB_TIME_BETWEEN_POSTS == 5
\* default of LUFTDATEN_TIME_BETWEEN_POSTS, in seconds
LUFTDATEN_TIME_BETWEEN_POSTS == 30

BME280 == "BME280"
LTR559 == "LTR559"
MICS6814 == "MICS6814"
PMS5003 == "PMS5003"

Adapters == {BME280, LTR559, MICS6814, PMS5003}

\* keys of 'values' each adapter writes, in the order it writes them
OwnedKeys(s) ==
    CASE s = BME280   -> <<"temperature_celsius", "pressure_pascals", "relative_humidity">>
      [] s = LTR559   -> <<"light_lux", "proximity_raw">>
      [] s = MICS6814 -> <<"gas_red_ohms", "gas_ox_ohms", "gas_nh3_ohms">>
      [] s = PMS5003  -> <<"pm_1u", "pm_2u5", "pm_10u">>

Range(f) == {f[i] : i \in DOMAIN f}

AllKeys == UNION {Range(OwnedKeys(s)) : s \in Adapters}

GasPmKeys == Range(OwnedKeys(MICS6814)) \cup Range(OwnedKeys(PMS5003))

----------------------------------------------------------------------------
(* Inputs: what the drivers and the host report, in thousandths of the unit *)

Milli(x) == x * 1000

\* The readings of one iteration are those of ambient condition n, which is
\* drawn at the start of the iteration.

\* BME280.temperature (C), .pressure (hPa), .humidity (%)
BME280Reading(n) ==
    [temperature |-> Milli(20 + n), pressure |-> Milli(1000 + n), humidity |-> Milli(40 + 5 * n)]

\* LTR559.get_lux(), .get_proximity()
LTR559Reading(n) == [lux |-> Milli(100 * n), proximity |-> Milli(n)]

\* gas.read_all(): .reducing, .oxidising, .nh3 (ohms)
MICS6814Reading(n) ==
    [reducing |-> Milli(400 + n), oxidising |-> Milli(20 + n), nh3 |-> Milli(700 + n)]

\* PMS5003.read(): pm_ug_per_m3(1.0), (2.5), (10)
PMS5003Reading(n) == [pm1 |-> Milli(3 * n), pm25 |-> Milli(5 * n), pm10 |-> Milli(8 * n)]

\* contents of /sys/class/thermal/thermal_zone0/temp (millidegrees) at the
\* i-th of the 5 reads of one BME280Sensor.update
CpuTemperatureFile(n, i) == 45000 + 500 * n + 250 * i

\* values of --temperature-factor, in thousandths; 0 stands for unset (None) and 0.0
TemperatureFactors == {0, 500}

\* the time a driver read or the bus rescan takes: none, or the longest
ReadTimes == {0, MaxReadTime}

\* the time by which a time.sleep call returns late: none, or the longest
Oversleeps == {0, MaxOversleep}

\* what a device does when its adapter reads it
Outcomes(s) == IF s = PMS5003 THEN {"ok", "ioerror", "timeout"} ELSE {"ok", "ioerror"}

HwConditions == {h \in [Adapters -> {"ok", "ioerror", "timeout"}] :
                    \A s \in Adapters : h[s] \in Outcomes(s)}

----------------------------------------------------------------------------
(* sensors/hw.py *)

EmptyDict == [k \in {} |-> 0]

\* values[k] = v
Put(d, k, v) == [x \in (DOMAIN d) \cup {k} |-> IF x = k THEN v ELSE d[x]]

Max(a, b) == IF a >= b THEN a ELSE b

RECURSIVE Sum(_)
Sum(q) == IF q = <<>> THEN 0 ELSE Head(q) + Sum(Tail(q))

\* (mutant) _reset_i2c without the time.sleep(2)
_reset_i2c_no_settle == <<"rescan">>

\* _reset_i2c: the bus operations it performs, in order
_reset_i2c == <<"rescan", "settle">>

\* _get_cpu_temperature: int(temp) / 1000.0
_get_cpu_temperature(file) == Milli(file) \div 1000

\* (mutant) the compensation of the legacy exporter (enviroplus_exporter.py):
\* temperature - (avg_cpu_temp - temperature) / factor
CompensatedTemperature_legacy(temperature, cpu_temps, f) ==
    LET avg_cpu_temp == Sum(cpu_temps) \div Len(cpu_temps)
    IN  temperature - ((avg_cpu_temp - temperature) * 1000) \div f

\* the compensation of BME280Sensor.update (factor f in thousandths):
\* (temperature - avg_cpu_temp * f) / (1 - f)
CompensatedTemperature(temperature, cpu_temps, f) ==
    LET avg_cpu_temp == Sum(cpu_temps) \div Len(cpu_temps)
    IN  (temperature * 1000 - avg_cpu_temp * f) \div (1000 - f)

\* An adapter's update returns [values, ret, bus]: the dict after the call, the
\* returned flag and the driver / bus operations performed ("cpu_temperature"
\* is a call of _get_cpu_temperature).  The bus I/O error
\* is raised by the driver call that accesses the device (update_sensor,
\* read_all, read), the first statement of every try block.
BME280Sensor_update(vals, outcome, r, cpu_files, f) ==
    IF outcome = "ok"
    THEN LET temperature ==
                 IF f # 0
                 THEN CompensatedTemperature(r.temperature,
                          [i \in 1..5 |-> _get_cpu_temperature(cpu_files[i])], f)
                 ELSE r.temperature
             v1 == Put(vals, "temperature_celsius", temperature)
             v2 == Put(v1, "pressure_pascals", r.pressure * 100)
             v3 == Put(v2, "relative_humidity", r.humidity \div 100)
         IN  [values |-> v3, ret |-> TRUE,
              bus |-> IF f # 0 THEN <<"read">> \o [i \in 1..5 |-> "cpu_temperature"]
                      ELSE <<"read">>]
    ELSE [values |-> vals, ret |-> FALSE, bus |-> <<"read">> \o _reset_i2c]

\* (mutant) LTR559Sensor.update in which get_proximity raises the bus error,
\* after light_lux was written
LTR559Sensor_update_partial(vals, outcome, r) ==
    IF outcome = "ok"
    THEN [values |-> Put(Put(vals, "light_lux", r.lux), "proximity_raw", r.proximity),
          ret |-> TRUE, bus |-> <<"read">>]
    ELSE [values |-> Put(vals, "light_lux", r.lux), ret |-> FALSE,
          bus |-> <<"read", "rescan", "settle">>]

\* get_lux(passive=True) and get_proximity(passive=True) return what
\* update_sensor has read; they do not access the device
LTR559Sensor_update(vals, outcome, r) ==
    IF outcome = "ok"
    THEN LET v1 == Put(vals, "light_lux", r.lux)
             v2 == Put(v1, "proximity_raw", r.proximity)
         IN  [values |-> v2, ret |-> TRUE, bus |-> <<"read">>]
    ELSE [values |-> vals, ret |-> FALSE, bus |-> <<"read">> \o _reset_i2c]

\* (mutant) MICS6814Sensor.update that does not write the nh3 reading
MICS6814Sensor_update_without_nh3(vals, outcome, r) ==
    IF outcome = "ok"
    THEN [values |-> Put(Put(vals, "gas_red_ohms", r.reducing), "gas_ox_ohms", r.oxidising),
          ret |-> TRUE, bus |-> <<"read">>]
    ELSE [values |-> vals, ret |-> FALSE, bus |-> <<"read", "rescan", "settle">>]

MICS6814Sensor_update(vals, outcome, r) ==
    IF outcome = "ok"
    THEN LET v1 == Put(vals, "gas_red_ohms", r.reducing)
             v2 == Put(v1, "gas_ox_ohms", r.oxidising)
             v3 == Put(v2, "gas_nh3_ohms", r.nh3)
         IN  [values |-> v3, ret |-> TRUE, bus |-> <<"read">>]
    ELSE [values |-> vals, ret |-> FALSE, bus |-> <<"read">> \o _reset_i2c]

\* (mutant) PMS5003Sensor.update that hands back an emptied dict when it fails
PMS5003Sensor_update_clearing(vals, outcome, r) ==
    IF outcome = "ok"
    THEN [values |-> Put(Put(Put(vals, "pm_1u", r.pm1), "pm_2u5", r.pm25), "pm_10u", r.pm10),
          ret |-> TRUE, bus |-> <<"read">>]
    ELSE [values |-> EmptyDict, ret |-> FALSE,
          bus |-> IF outcome = "timeout" THEN <<"read">> ELSE <<"read", "rescan", "settle">>]

\* (mutant) PMS5003Sensor.update that resets the bus on the read-timeout too
PMS5003Sensor_update_timeout_resets(vals, outcome, r) ==
    IF outcome = "ok"
    THEN [values |-> Put(Put(Put(vals, "pm_1u", r.pm1), "pm_2u5", r.pm25), "pm_10u", r.pm10),
          ret |-> TRUE, bus |-> <<"read">>]
    ELSE [values |-> vals, ret |-> FALSE, bus |-> <<"read", "rescan", "settle">>]

\* (mutant) PMS5003Sensor.update that has written pm_1u when the read-timeout
\* ends it
PMS5003Sensor_update_partial(vals, outcome, r) ==
    CASE outcome = "ok" ->
           [values |-> Put(Put(Put(vals, "pm_1u", r.pm1), "pm_2u5", r.pm25), "pm_10u", r.pm10),
            ret |-> TRUE, bus |-> <<"read">>]
      [] outcome = "timeout" ->
           [values |-> Put(vals, "pm_1u", r.pm1), ret |-> FALSE, bus |-> <<"read">>]
      [] OTHER ->
           [values |-> vals, ret |-> FALSE, bus |-> <<"read", "rescan", "settle">>]

PMS5003Sensor_update(vals, outcome, r) ==
    CASE outcome = "ok" ->
           LET v1 == Put(vals, "pm_1u", r.pm1)
               v2 == Put(v1, "pm_2u5", r.pm25)
               v3 == Put(v2, "pm_10u", r.pm10)
           IN  [values |-> v3, ret |-> TRUE, bus |-> <<"read">>]
      [] outcome = "timeout" ->
           [values |-> vals, ret |-> FALSE, bus |-> <<"read">>]
      [] OTHER ->
           [values |-> vals, ret |-> FALSE, bus |-> <<"read">> \o _reset_i2c]

----------------------------------------------------------------------------
(* sensors/factory.py, sensors/core.py *)

\* create_sensors: the members of the SensorCollection for the flag 'enviro'
create_sensors(e) ==
    IF e THEN <<BME280, LTR559>> ELSE <<BME280, LTR559, MICS6814, PMS5003>>

\* (mutant) SensorCollection.update with any() in place of all()
SensorCollection_update_any(ret, idx, n) ==
    IF ret THEN [done |-> TRUE, result |-> TRUE, idx |-> idx]
    ELSE IF idx = n THEN [done |-> TRUE, result |-> FALSE, idx |-> idx]
    ELSE [done |-> FALSE, result |-> FALSE, idx |-> idx + 1]

\* SensorCollection.update: one step of all(sensor.update(values) for sensor in
\* self._sensors), after the adapter at position idx (of n) returned ret.
\* all() stops consuming the generator at the first false element.
SensorCollection_update(ret, idx, n) ==
    IF ~ret THEN [done |-> TRUE, result |-> FALSE, idx |-> idx]
    ELSE IF idx = n THEN [done |-> TRUE, result |-> TRUE, idx |-> idx]
    ELSE [done |-> FALSE, result |-> TRUE, idx |-> idx + 1]

----------------------------------------------------------------------------
(* prometheus-enviro-exporter.py: the rate limiters *)

\* (mutant) create_loop_rate_limiter that limits the rate for period 0 too
create_loop_rate_limiter_nonnegative(p) ==
    IF p >= 0 THEN "LoopRateLimiter" ELSE "NoLoopRateLimiter"

create_loop_rate_limiter(p) == IF p > 0 THEN "LoopRateLimiter" ELSE "NoLoopRateLimiter"

\* (mutant) iteration_end whose reference may lag by 200 periods
LoopRateLimiter_iteration_end_cap_200(ref, p, t) ==
    [sleep_time |-> (ref + p) - t,
     time_ref   |-> Max(ref + p, t - 2 * MAX_LAG_PERIODS * p),
     ret        |-> t]

\* (mutant) iteration_end that restarts the reference at the completion time
LoopRateLimiter_iteration_end_from_real(ref, p, t) ==
    [sleep_time |-> (ref + p) - t, time_ref |-> t, ret |-> t]

\* (mutant) iteration_end without the cap of the lag
LoopRateLimiter_iteration_end_uncapped(ref, p, t) ==
    [sleep_time |-> (ref + p) - t, time_ref |-> ref + p, ret |-> t]

\* LoopRateLimiter.iteration_end at time t
LoopRateLimiter_iteration_end(ref, p, t) ==
    LET time_ref_ == ref + p
        time_real == t
    IN  [sleep_time |-> time_ref_ - time_real,
         time_ref   |-> Max(time_ref_, time_real - MAX_LAG_PERIODS * p),
         ret        |-> time_real]

\* NoLoopRateLimiter.iteration_end at time t
NoLoopRateLimiter_iteration_end(t) == t

\* (mutant) LoopRateLimiter.sleep that asks for one second less
LoopRateLimiter_sleep_short(st) == IF st > 1 THEN <<st - 1>> ELSE <<>>

\* LoopRateLimiter.sleep: the arguments of the time.sleep calls it makes
LoopRateLimiter_sleep(st) == IF st > 0 THEN <<st>> ELSE <<>>

\* NoLoopRateLimiter.sleep and .end_sleep (pass): the time.sleep calls they make
NoLoopRateLimiter_sleep == <<>>
NoLoopRateLimiter_end_sleep == <<>>

\* (mutant) a metric block that handles the gas and particulate values first
MetricBlock_gas_first(e) ==
    LET set(k) == [kind |-> "set", key |-> k]
        observe(k) == [kind |-> "observe", key |-> k]
    IN  (IF e THEN <<>>
         ELSE << set("gas_red_ohms"), set("gas_ox_ohms"), set("gas_nh3_ohms"),
                 observe("gas_red_ohms"), observe("gas_ox_ohms"), observe("gas_nh3_ohms"),
                 set("pm_1u"), set("pm_2u5"), set("pm_10u"),
                 observe("pm_1u"), observe("pm_2u5"), observe("pm_10u") >>)
        \o << set("temperature_celsius"), set("pressure_pascals"), set("relative_humidity"),
              set("light_lux"), set("proximity_raw") >>

\* the statements of the metric block of the loop, in program order
MetricBlock(e) ==
    LET set(k) == [kind |-> "set", key |-> k]
        observe(k) == [kind |-> "observe", key |-> k]
    IN  << set("temperature_celsius"), set("pressure_pascals"), set("relative_humidity"),
           set("light_lux"), set("proximity_raw") >>
        \o (IF e THEN <<>>
            ELSE << set("gas_red_ohms"), set("gas_ox_ohms"), set("gas_nh3_ohms"),
                    observe("gas_red_ohms"), observe("gas_ox_ohms"), observe("gas_nh3_ohms"),
                    set("pm_1u"), set("pm_2u5"), set("pm_10u"),
                    observe("pm_1u"), observe("pm_2u5"), observe("pm_10u") >>)

\* (mutant) the test of line 248 without its 'not'
ErrorIncrement_inverted(ok) == IF ok THEN 1 ELSE 0

\* if not sensor.update(values): ERROR_COUNTER.inc()
ErrorIncrement(ok) == IF ok THEN 0 ELSE 1

----------------------------------------------------------------------------
(* prometheus-enviro-exporter.py: the posting threads *)

INFLUXDB == "InfluxDB"
LUFTDATEN == "Luftdaten"

Sinks == {INFLUXDB, LUFTDATEN}

\* the interval each posting loop is started with (lines 220, 227)
time_between_posts(t) ==
    IF t = INFLUXDB THEN INFLUXDB_TIME_BETWEEN_POSTS ELSE LUFTDATEN_TIME_BETWEEN_POSTS

\* collect_all_data: the entries of its dict display in evaluation order, each
\* with the Gauge it reads (the Gauge is named by the key of 'values' it is
\* set from)
CollectAllData ==
    << [name |-> "temperature", gauge |-> "temperature_celsius"],
       [name |-> "pressure",    gauge |-> "pressure_pascals"],
       [name |-> "humidity",    gauge |-> "relative_humidity"],
       [name |-> "light",       gauge |-> "light_lux"],
       [name |-> "proximity",   gauge |-> "proximity_raw"],
       [name |-> "gas_red",     gauge |-> "gas_red_ohms"],
       [name |-> "gas_ox",      gauge |-> "gas_ox_ohms"],
       [name |-> "gas_nh3",     gauge |-> "gas_nh3_ohms"],
       [name |-> "pm1",         gauge |-> "pm_1u"],
       [name |-> "pm25",        gauge |-> "pm_2u5"],
       [name |-> "pm10",        gauge |-> "pm_10u"] >>

\* how a post attempt can end: influxdb_api.write returns or raises;
\* requests.post raises, or both responses arrive and are .ok or not
PostOutcomes(t) ==
    IF t = INFLUXDB THEN {"ok", "exception"} ELSE {"ok", "failed", "exception"}

\* (mutant) a posting loop whose exception handler re-raises
post_loop_attempt_raising(outcome) ==
    [errors |-> IF outcome = "failed" THEN 1 ELSE 0,
     pc     |-> IF outcome = "exception" THEN "terminated" ELSE "sleep"]

\* the rest of an iteration of a posting loop once the attempt has ended
\* (lines 110-114, 150-157): the number of logging.error calls and where the
\* thread continues ("sleep" is the head of the while loop)
post_loop_attempt(outcome) ==
    [errors |-> IF outcome = "ok" THEN 0 ELSE 1, pc |-> "sleep"]

\* no posting thread has been started
NoSinkStarted ==
    /\ sink_pc = [t \in Sinks |-> "off"]
    /\ sink_idx = [t \in Sinks |-> 1]
    /\ sensor_data = [t \in Sinks |-> EmptyDict]
    /\ sink_posts = [t \in Sinks |-> 0]
    /\ sink_errors = [t \in Sinks |-> 0]
    /\ sink_slept = [t \in Sinks |-> <<>>]
    /\ post_result = [t \in Sinks |-> "none"]

----------------------------------------------------------------------------
(* The sampling loop, prometheus-enviro-exporter.py lines 236-276 *)

\* State when the loop is entered: the aggregate is built, the limiter is
\* created (its reference is the current time), every metric is at its
\* initial value 0.
Init ==
    /\ enviro \in BOOLEAN
    /\ temperature_factor \in TemperatureFactors
    /\ period \in {0 - MaxPeriod, 0, MaxPeriod}
    /\ sensors = create_sensors(enviro)
    /\ pc = "loop"
    /\ cycles = 0
    /\ hw = [s \in Adapters |-> "ok"]
    /\ sample = 1
    /\ values = EmptyDict
    /\ sensor_idx = 1
    /\ calls = <<>>
    /\ rets = <<>>
    /\ bus_log = <<>>
    /\ bus_busy = {}
    /\ bus_plan = <<>>
    /\ update_ok = TRUE
    /\ set_idx = 1
    /\ gauge = [k \in AllKeys |-> 0]
    /\ hist_count = [k \in GasPmKeys |-> 0]
    /\ ERROR_COUNTER = 0
    /\ LOOP_UPDATE_TIME = 0
    /\ time_incs = 0
    /\ now = 0
    /\ time_ref = 0
    /\ sleep_time = 0
    /\ update_start = 0
    /\ slept = <<>>
    /\ work = 0
    /\ short_run = TRUE
    /\ no_sleep_run = 0
    /\ influxdb = FALSE
    /\ luftdaten = FALSE
    /\ NoSinkStarted

config == <<enviro, temperature_factor, period, sensors, influxdb, luftdaten>>
sinks == <<sink_pc, sink_idx, sensor_data, sink_posts, sink_errors, sink_slept, post_result>>
limiter == <<time_ref, sleep_time, slept>>
harness == <<work, short_run, no_sleep_run>>
bus == <<bus_busy, bus_plan>>
aggregate == <<hw, sample, values, sensor_idx, calls, rets, bus_log, update_ok>>
registry == <<gauge, hist_count, ERROR_COUNTER, LOOP_UPDATE_TIME, time_incs>>

\* lines 245-247: update_start = rate_limiter.now(); values = {}; the call of
\* sensor.update(values) begins.  The condition of every device during this
\* iteration is an input.
LoopStart ==
    /\ pc = "loop"
    /\ cycles < MaxCycles
    /\ cycles' = cycles + 1
    /\ update_start' = now
    /\ values' = EmptyDict
    /\ \E h \in HwConditions : hw' = h
    /\ \E n \in 1..MaxSample : sample' = n
    /\ sensor_idx' = 1
    /\ calls' = <<>>
    /\ rets' = <<>>
    /\ bus_log' = <<>>
    /\ pc' = "update"
    /\ UNCHANGED <<config, bus, sinks, limiter, harness, registry, update_ok, set_idx, now>>

\* the operations 'ops' an adapter performed, tagged with the adapter
Tagged(s, ops) == [i \in 1..Len(ops) |-> [sensor |-> s, op |-> ops[i]]]

\* the time the operations 'ops' take: the driver read takes dt, the rescan
\* (i2cdetect) takes rdt, the settle is time.sleep(2), which returns after
\* 2 seconds or up to e later, reading the CPU temperature file takes no time
Duration(ops, dt, rdt, e) ==
    Sum([i \in 1..Len(ops) |->
            CASE ops[i] = "read"   -> dt
              [] ops[i] = "rescan" -> rdt
              [] ops[i] = "settle" -> I2C_SETTLE_SECONDS + e
              [] ops[i] = "cpu_temperature" -> 0])

\* the adapter at the generator's position has returned res: all() takes the
\* result and either asks for the next element or returns (lines 248, core.py 16)
AdapterReturns(s, res, dt, rdt, e) ==
    LET nx == SensorCollection_update(res.ret, sensor_idx, Len(sensors))
    IN  /\ values' = res.values
        /\ calls' = Append(calls, s)
        /\ rets' = Append(rets, res.ret)
        /\ bus_log' = bus_log \o Tagged(s, res.bus)
        /\ now' = now + Duration(res.bus, dt, rdt, e)
        /\ sensor_idx' = nx.idx
        /\ update_ok' = nx.result
        /\ pc' = IF nx.done THEN "check" ELSE "update"
        /\ UNCHANGED <<config, bus, sinks, limiter, harness, registry, hw, sample, cycles, set_idx,
                       update_start>>

AtAdapter(s) ==
    /\ pc = "update"
    /\ sensor_idx <= Len(sensors)
    /\ sensors[sensor_idx] = s

UpdateBME280 ==
    /\ AtAdapter(BME280)
    /\ \E dt \in ReadTimes, rdt \in ReadTimes, e \in Oversleeps :
          AdapterReturns(BME280,
              BME280Sensor_update(values, hw[BME280], BME280Reading(sample),
                  [i \in 1..5 |-> CpuTemperatureFile(sample, i)], temperature_factor),
              dt, rdt, e)

UpdateLTR559 ==
    /\ AtAdapter(LTR559)
    /\ \E dt \in ReadTimes, rdt \in ReadTimes, e \in Oversleeps :
          AdapterReturns(LTR559,
              LTR559Sensor_update(values, hw[LTR559], LTR559Reading(sample)), dt, rdt, e)

UpdateMICS6814 ==
    /\ AtAdapter(MICS6814)
    /\ \E dt \in ReadTimes, rdt \in ReadTimes, e \in Oversleeps :
          AdapterReturns(MICS6814,
              MICS6814Sensor_update(values, hw[MICS6814], MICS6814Reading(sample)), dt, rdt, e)

UpdatePMS5003 ==
    /\ AtAdapter(PMS5003)
    /\ \E dt \in ReadTimes, rdt \in ReadTimes, e \in Oversleeps :
          AdapterReturns(PMS5003,
              PMS5003Sensor_update(values, hw[PMS5003], PMS5003Reading(sample)), dt, rdt, e)

\* lines 248-249: if not sensor.update(values): ERROR_COUNTER.inc()
CountError ==
    /\ pc = "check"
    /\ ERROR_COUNTER' = ERROR_COUNTER + ErrorIncrement(update_ok)
    /\ set_idx' = 1
    /\ pc' = "metrics"
    /\ UNCHANGED <<config, bus, sinks, limiter, harness, aggregate, cycles, gauge, hist_count,
                   LOOP_UPDATE_TIME, time_incs, now, update_start>>

AtMetric(kind) ==
    /\ pc = "metrics"
    /\ set_idx <= Len(MetricBlock(enviro))
    /\ MetricBlock(enviro)[set_idx].kind = kind

MetricDone ==
    /\ set_idx' = set_idx + 1
    /\ pc' = IF set_idx = Len(MetricBlock(enviro)) THEN "end" ELSE "metrics"

\* lines 254-262, 266-268: GAUGE.set(values[key])
GaugeSet ==
    /\ AtMetric("set")
    /\ LET k == MetricBlock(enviro)[set_idx].key
       IN  /\ k \in DOMAIN values
           /\ gauge' = [gauge EXCEPT ![k] = values[k]]
    /\ MetricDone
    /\ UNCHANGED <<config, bus, sinks, limiter, harness, aggregate, cycles, hist_count, ERROR_COUNTER,
                   LOOP_UPDATE_TIME, time_incs, now, update_start>>

\* lines 263-265, 269-271: HIST.observe(values[key])
HistogramObserve ==
    /\ AtMetric("observe")
    /\ LET k == MetricBlock(enviro)[set_idx].key
       IN  /\ k \in DOMAIN values
           /\ hist_count' = [hist_count EXCEPT ![k] = @ + 1]
    /\ MetricDone
    /\ UNCHANGED <<config, bus, sinks, limiter, harness, aggregate, cycles, gauge, ERROR_COUNTER,
                   LOOP_UPDATE_TIME, time_incs, now, update_start>>

\* values[key] of a key that is not in the dict raises KeyError; nothing
\* catches it, the main thread ends
KeyErrorExit ==
    /\ pc = "metrics"
    /\ set_idx <= Len(MetricBlock(enviro))
    /\ MetricBlock(enviro)[set_idx].key \notin DOMAIN values
    /\ pc' = "terminated"
    /\ UNCHANGED <<config, bus, sinks, limiter, harness, aggregate, registry, cycles, set_idx, now,
                   update_start>>

\* lines 274-275: update_end = rate_limiter.iteration_end();
\* LOOP_UPDATE_TIME.inc(update_end - update_start)
IterationEnd ==
    /\ pc = "end"
    /\ IF create_loop_rate_limiter(period) = "LoopRateLimiter"
       THEN LET r == LoopRateLimiter_iteration_end(time_ref, period, now)
            IN  /\ time_ref' = r.time_ref
                /\ sleep_time' = r.sleep_time
                /\ LOOP_UPDATE_TIME' = LOOP_UPDATE_TIME + (r.ret - update_start)
       ELSE /\ UNCHANGED <<time_ref, sleep_time>>
            /\ LOOP_UPDATE_TIME' = LOOP_UPDATE_TIME + (NoLoopRateLimiter_iteration_end(now) - update_start)
    /\ time_incs' = time_incs + 1
    /\ pc' = "sleep"
    /\ UNCHANGED <<config, bus, sinks, harness, aggregate, cycles, set_idx, gauge, hist_count,
                   ERROR_COUNTER, now, update_start, slept>>

\* line 276: rate_limiter.sleep(); time.sleep(d) returns after d seconds or up
\* to MaxOversleep later
Sleep ==
    /\ pc = "sleep"
    /\ slept' = IF create_loop_rate_limiter(period) = "LoopRateLimiter"
                THEN LoopRateLimiter_sleep(sleep_time) ELSE NoLoopRateLimiter_sleep
    /\ IF slept' = <<>>
       THEN now' = now
       ELSE \E e \in Oversleeps : now' = now + Sum(slept') + e
    /\ pc' = "loop"
    /\ UNCHANGED <<config, bus, sinks, harness, aggregate, registry, cycles, set_idx, time_ref,
                   sleep_time, update_start>>

Next ==
    \/ LoopStart
    \/ UpdateBME280
    \/ UpdateLTR559
    \/ UpdateMICS6814
    \/ UpdatePMS5003
    \/ CountError
    \/ GaugeSet
    \/ HistogramObserve
    \/ KeyErrorExit
    \/ IterationEnd
    \/ Sleep

Spec == Init /\ [][Next]_vars

----------------------------------------------------------------------------
(* The limiter on its own: the loop of lines 244-276 with the body of an     *)
(* iteration (lines 247-273) reduced to the time it takes.                   *)

InitLimiter ==
    /\ enviro = FALSE
    /\ temperature_factor = 0
    /\ period \in 1..MaxLimiterPeriod
    /\ sensors = create_sensors(enviro)
    /\ pc = "loop"
    /\ cycles = 0
    /\ hw = [s \in Adapters |-> "ok"]
    /\ sample = 1
    /\ values = EmptyDict
    /\ sensor_idx = 1
    /\ calls = <<>>
    /\ rets = <<>>
    /\ bus_log = <<>>
    /\ bus_busy = {}
    /\ bus_plan = <<>>
    /\ update_ok = TRUE
    /\ set_idx = 1
    /\ gauge = [k \in AllKeys |-> 0]
    /\ hist_count = [k \in GasPmKeys |-> 0]
    /\ ERROR_COUNTER = 0
    /\ LOOP_UPDATE_TIME = 0
    /\ time_incs = 0
    /\ now = 0
    /\ time_ref = 0
    /\ sleep_time = 0
    /\ update_start = 0
    /\ slept = <<>>
    /\ work = 0
    /\ short_run = TRUE
    /\ no_sleep_run = 0
    /\ influxdb = FALSE
    /\ luftdaten = FALSE
    /\ NoSinkStarted

\* processing times of one iteration: short ones, and stalls of 100 periods and more
WorkTimes(p) == (0..MaxWork) \cup {MAX_LAG_PERIODS * p + x : x \in 0..MaxWork}

\* line 245 and the body of the iteration: update_start = rate_limiter.now(),
\* then d seconds of processing; the iteration before it is finished and
\* extends the run of iterations without sleep or ends it
LimiterWork ==
    /\ pc = "loop"
    /\ \E d \in WorkTimes(period) :
          /\ now + d <= (MAX_LAG_PERIODS + MaxExtraPeriods) * period
          /\ work' = d
          /\ now' = now + d
          /\ short_run' = (short_run /\ d < period)
    /\ no_sleep_run' = IF cycles >= 1 /\ work = 0 /\ slept = <<>>
                       THEN no_sleep_run + 1 ELSE 0
    /\ update_start' = now
    /\ cycles' = cycles + 1
    /\ pc' = "end"
    /\ UNCHANGED <<config, bus, sinks, limiter, aggregate, registry, set_idx>>

\* line 274: update_end = rate_limiter.iteration_end(); update_end is the
\* current time, which does not advance before line 276
LimiterIterationEnd ==
    /\ pc = "end"
    /\ LET r == LoopRateLimiter_iteration_end(time_ref, period, now)
       IN  /\ time_ref' = r.time_ref
           /\ sleep_time' = r.sleep_time
    /\ pc' = "sleep"
    /\ UNCHANGED <<config, bus, sinks, harness, aggregate, registry, cycles, set_idx, now,
                   update_start, slept>>

NextLimiter ==
    \/ LimiterWork
    \/ LimiterIterationEnd
    \/ Sleep

SpecLimiter == InitLimiter /\ [][NextLimiter]_vars

----------------------------------------------------------------------------
(* The posting threads next to the sampling loop.  The posting threads share *)
(* nothing with the main thread but the Gauges, so the statements of an      *)
(* iteration that touch none (lines 245-249) are taken as one step, with     *)
(* devices that can be read and reads that take no time.                     *)

\* sensor.update(values) of the adapter s on a device in condition 'outcome',
\* in ambient condition n
AdapterUpdate(s, vals, outcome, n, f) ==
    CASE s = BME280   -> BME280Sensor_update(vals, outcome, BME280Reading(n),
                             [i \in 1..5 |-> CpuTemperatureFile(n, i)], f)
      [] s = LTR559   -> LTR559Sensor_update(vals, outcome, LTR559Reading(n))
      [] s = MICS6814 -> MICS6814Sensor_update(vals, outcome, MICS6814Reading(n))
      [] s = PMS5003  -> PMS5003Sensor_update(vals, outcome, PMS5003Reading(n))

\* SensorCollection.update(vals) over the adapters ss from position idx on:
\* the dict it leaves, what it returns, the adapters called, what they
\* returned and the bus operations
RECURSIVE AggregateUpdate(_, _, _, _, _, _)
AggregateUpdate(ss, idx, vals, h, n, f) ==
    LET s   == ss[idx]
        res == AdapterUpdate(s, vals, h[s], n, f)
        nx  == SensorCollection_update(res.ret, idx, Len(ss))
    IN  IF nx.done
        THEN [values |-> res.values, ret |-> nx.result, calls |-> <<s>>,
              rets |-> <<res.ret>>, bus |-> Tagged(s, res.bus)]
        ELSE LET rest == AggregateUpdate(ss, nx.idx, res.values, h, n, f)
             IN  [values |-> rest.values, ret |-> rest.ret, calls |-> <<s>> \o rest.calls,
                  rets |-> <<res.ret>> \o rest.rets, bus |-> Tagged(s, res.bus) \o rest.bus]

\* every device can be read
AllDevicesOk == [s \in Adapters |-> "ok"]

\* the registry after a complete iteration in ambient condition n: what
\* collect_all_data returns when no Gauge is written while it runs
RegistryAfterCycle(ss, n, f) ==
    LET v == AggregateUpdate(ss, 1, EmptyDict, AllDevicesOk, n, f).values
    IN  [name \in {CollectAllData[i].name : i \in DOMAIN CollectAllData} |->
            LET i == CHOOSE j \in DOMAIN CollectAllData : CollectAllData[j].name = name
            IN  IF CollectAllData[i].gauge \in DOMAIN v THEN v[CollectAllData[i].gauge] ELSE 0]

\* the Gauges the metric block of the loop sets
SetKeys(e) == {MetricBlock(e)[i].key : i \in {j \in DOMAIN MetricBlock(e) : MetricBlock(e)[j].kind = "set"}}

\* the main thread is about to enter the loop, the posting threads of the
\* switches that are set have been started (lines 208-231)
InitThreads ==
    /\ temperature_factor = 0
    /\ period = 0
    /\ sensors = create_sensors(enviro)
    /\ pc = "loop"
    /\ cycles = 0
    /\ hw = [s \in Adapters |-> "ok"]
    /\ sample = 1
    /\ values = EmptyDict
    /\ sensor_idx = 1
    /\ calls = <<>>
    /\ rets = <<>>
    /\ bus_log = <<>>
    /\ bus_busy = {}
    /\ bus_plan = <<>>
    /\ update_ok = TRUE
    /\ set_idx = 1
    /\ gauge = [k \in AllKeys |-> 0]
    /\ hist_count = [k \in GasPmKeys |-> 0]
    /\ ERROR_COUNTER = 0
    /\ LOOP_UPDATE_TIME = 0
    /\ time_incs = 0
    /\ now = 0
    /\ time_ref = 0
    /\ sleep_time = 0
    /\ update_start = 0
    /\ slept = <<>>
    /\ work = 0
    /\ short_run = TRUE
    /\ no_sleep_run = 0
    /\ sink_pc = [t \in Sinks |->
                    IF (t = INFLUXDB /\ influxdb) \/ (t = LUFTDATEN /\ luftdaten)
                    THEN "sleep" ELSE "off"]
    /\ sink_idx = [t \in Sinks |-> 1]
    /\ sensor_data = [t \in Sinks |-> EmptyDict]
    /\ sink_posts = [t \in Sinks |-> 0]
    /\ sink_errors = [t \in Sinks |-> 0]
    /\ sink_slept = [t \in Sinks |-> <<>>]
    /\ post_result = [t \in Sinks |-> "none"]

sampler == <<pc, cycles, set_idx, now, update_start>>

\* lines 245-249 in one step: update_start = rate_limiter.now(); values = {};
\* if not sensor.update(values): ERROR_COUNTER.inc()
SamplerUpdate ==
    /\ pc = "loop"
    /\ cycles < MaxCycles
    /\ cycles' = cycles + 1
    /\ update_start' = now
    /\ hw' = AllDevicesOk
    /\ \E n \in 1..MaxSample :
          LET r == AggregateUpdate(sensors, 1, EmptyDict, AllDevicesOk, n, temperature_factor)
          IN  /\ sample' = n
              /\ values' = r.values
              /\ calls' = r.calls
              /\ rets' = r.rets
              /\ bus_log' = r.bus
              /\ update_ok' = r.ret
              /\ ERROR_COUNTER' = ERROR_COUNTER + ErrorIncrement(r.ret)
    /\ sensor_idx' = Len(sensors)
    /\ set_idx' = 1
    /\ pc' = "metrics"
    /\ UNCHANGED <<config, bus, sinks, limiter, harness, gauge, hist_count, LOOP_UPDATE_TIME,
                   time_incs, now>>

\* line 105 / 139: time.sleep(time_between_posts) at the head of the loop
SinkSleep(t) ==
    /\ sink_pc[t] = "sleep"
    /\ sink_posts[t] < MaxPosts
    /\ sink_slept' = [sink_slept EXCEPT ![t] = Append(@, time_between_posts(t))]
    /\ sink_pc' = [sink_pc EXCEPT ![t] = "collect"]
    /\ UNCHANGED <<config, bus, sampler, limiter, harness, aggregate, registry, sink_idx,
                   sensor_data, sink_posts, sink_errors, post_result>>

\* one entry of the dict display of collect_all_data (lines 37-49):
\* GAUGE.collect()[0].samples[0].value
SinkCollect(t) ==
    /\ sink_pc[t] = "collect"
    /\ LET e == CollectAllData[sink_idx[t]]
       IN  sensor_data' = [sensor_data EXCEPT ![t] = Put(@, e.name, gauge[e.gauge])]
    /\ sink_idx' = [sink_idx EXCEPT ![t] = @ + 1]
    /\ sink_pc' = [sink_pc EXCEPT ![t] =
                      IF sink_idx[t] = Len(CollectAllData) THEN "post" ELSE "collect"]
    /\ UNCHANGED <<config, bus, sampler, limiter, harness, aggregate, registry, sink_posts,
                   sink_errors, sink_slept, post_result>>

\* the post attempt with the collected data and the handling of its outcome
\* (lines 106-114, 142-157); the collected data is local to the iteration
SinkPost(t) ==
    /\ sink_pc[t] = "post"
    /\ \E outcome \in PostOutcomes(t) :
          LET r == post_loop_attempt(outcome)
          IN  /\ post_result' = [post_result EXCEPT ![t] = outcome]
              /\ sink_errors' = [sink_errors EXCEPT ![t] = @ + r.errors]
              /\ sink_pc' = [sink_pc EXCEPT ![t] = r.pc]
    /\ sink_posts' = [sink_posts EXCEPT ![t] = @ + 1]
    /\ sensor_data' = [sensor_data EXCEPT ![t] = EmptyDict]
    /\ sink_idx' = [sink_idx EXCEPT ![t] = 1]
    /\ UNCHANGED <<config, bus, sampler, limiter, harness, aggregate, registry, sink_slept>>

\* an iteration of a posting loop after its sleep, in one step: collect_all_data
\* reads the Gauges, the data is posted, the outcome is handled
SinkIteration(t) ==
    /\ sink_pc[t] = "collect"
    /\ sink_idx[t] = 1
    /\ \E outcome \in PostOutcomes(t) :
          LET r == post_loop_attempt(outcome)
          IN  /\ post_result' = [post_result EXCEPT ![t] = outcome]
              /\ sink_errors' = [sink_errors EXCEPT ![t] = @ + r.errors]
              /\ sink_pc' = [sink_pc EXCEPT ![t] = r.pc]
    /\ sink_posts' = [sink_posts EXCEPT ![t] = @ + 1]
    /\ UNCHANGED <<config, bus, sampler, limiter, harness, aggregate, registry, sink_idx,
                   sensor_data, sink_slept>>

----------------------------------------------------------------------------
(* One posting thread reading the Gauges while the loop sets them: the       *)
(* InfluxDB thread of an Enviro, collect_all_data taken entry by entry.      *)

InitSnapshot ==
    /\ enviro = TRUE
    /\ influxdb = TRUE
    /\ luftdaten = FALSE
    /\ InitThreads

InfluxdbSleep == SinkSleep(INFLUXDB)
InfluxdbCollect == SinkCollect(INFLUXDB)
InfluxdbWrite == SinkPost(INFLUXDB)

NextSnapshot ==
    \/ SamplerUpdate
    \/ GaugeSet
    \/ IterationEnd
    \/ Sleep
    \/ InfluxdbSleep
    \/ InfluxdbCollect
    \/ InfluxdbWrite

SpecSnapshot == InitSnapshot /\ [][NextSnapshot]_vars

----------------------------------------------------------------------------
(* Both posting threads next to the loop, an iteration of a posting loop     *)
(* taken as one step after its sleep.                                        *)

InitSinks ==
    /\ enviro \in BOOLEAN
    /\ influxdb = TRUE
    /\ luftdaten = TRUE
    /\ InitThreads

InfluxdbIteration == SinkIteration(INFLUXDB)
LuftdatenSleep == SinkSleep(LUFTDATEN)
LuftdatenIteration == SinkIteration(LUFTDATEN)

NextSinks ==
    \/ SamplerUpdate
    \/ GaugeSet
    \/ HistogramObserve
    \/ IterationEnd
    \/ Sleep
    \/ InfluxdbSleep
    \/ InfluxdbIteration
    \/ LuftdatenSleep
    \/ LuftdatenIteration

SpecSinks == InitSinks /\ [][NextSinks]_vars

----------------------------------------------------------------------------
(* The bus, one operation at a time.  An adapter call is taken apart into    *)
(* the bus operations it performs, each with a begin and an end, and a       *)
(* posting thread runs next to the loop (an iteration of a posting loop in   *)
(* one step after its sleep), so that the posting thread may take a step     *)
(* while a bus operation is in progress.                                     *)

\* (mutant) the rescan started with subprocess.Popen, which does not wait
Synchronous_popen(op) == op # "rescan"

\* every bus operation is a synchronous call of the calling thread: the driver
\* reads return the data, subprocess.run waits for i2cdetect to exit (hw.py 9),
\* time.sleep returns after the delay (hw.py 10)
Synchronous(op) == op \in {"read", "rescan", "settle", "cpu_temperature"}

\* the calling thread is inside a synchronous operation
InOperation == \E o \in bus_busy : Synchronous(o.op)

\* one of the posting threads has been started
InitBus ==
    /\ enviro \in BOOLEAN
    /\ influxdb \in BOOLEAN
    /\ luftdaten = ~influxdb
    /\ InitThreads

\* all() calls update(values) of the adapter at the generator's position
\* (core.py 16): the operations the call is going to perform
AdapterCall ==
    /\ pc = "update"
    /\ sensor_idx <= Len(sensors)
    /\ LET s == sensors[sensor_idx]
       IN  bus_plan' = Tagged(s, AdapterUpdate(s, values, hw[s], sample,
                                     temperature_factor).bus)
    /\ pc' = "bus"
    /\ UNCHANGED <<config, sinks, limiter, harness, aggregate, registry, cycles, set_idx,
                   now, update_start, bus_busy>>

\* the adapter call begins its next bus operation
BusBegin ==
    /\ pc = "bus"
    /\ bus_plan # <<>>
    /\ ~InOperation
    /\ bus_busy' = bus_busy \cup {Head(bus_plan)}
    /\ bus_plan' = Tail(bus_plan)
    /\ UNCHANGED <<config, sinks, limiter, harness, aggregate, registry, cycles, set_idx,
                   now, update_start, pc>>

\* a bus operation in progress ends, after the time it takes: the settle
\* delay takes its 2 seconds, the reads and the rescan no time
BusEnd ==
    /\ \E o \in bus_busy :
          /\ bus_busy' = bus_busy \ {o}
          /\ bus_log' = Append(bus_log, o)
          /\ now' = now + Duration(<<o.op>>, 0, 0, 0)
    /\ UNCHANGED <<config, sinks, limiter, harness, registry, hw, sample, values,
                   sensor_idx, calls, rets, update_ok, cycles, set_idx, update_start,
                   pc, bus_plan>>

\* the adapter call returns: all() takes the result and either asks for the
\* next element or returns (line 248, core.py 16)
AdapterReturn ==
    /\ pc = "bus"
    /\ bus_plan = <<>>
    /\ ~InOperation
    /\ LET s   == sensors[sensor_idx]
           res == AdapterUpdate(s, values, hw[s], sample, temperature_factor)
           nx  == SensorCollection_update(res.ret, sensor_idx, Len(sensors))
       IN  /\ values' = res.values
           /\ calls' = Append(calls, s)
           /\ rets' = Append(rets, res.ret)
           /\ sensor_idx' = nx.idx
           /\ update_ok' = nx.result
           /\ pc' = IF nx.done THEN "check" ELSE "update"
    /\ UNCHANGED <<config, sinks, limiter, harness, registry, hw, sample, bus_log, bus,
                   cycles, set_idx, now, update_start>>

NextBus ==
    \/ LoopStart
    \/ AdapterCall
    \/ BusBegin
    \/ BusEnd
    \/ AdapterReturn
    \/ CountError
    \/ GaugeSet
    \/ HistogramObserve
    \/ KeyErrorExit
    \/ IterationEnd
    \/ Sleep
    \/ InfluxdbSleep
    \/ InfluxdbIteration
    \/ LuftdatenSleep
    \/ LuftdatenIteration

SpecBus == InitBus /\ [][NextBus]_vars

----------------------------------------------------------------------------
(* The start of the program, lines 196-236: the posting threads are started, *)
(* then the aggregate is built by the call of line 236,                      *)
(*     sensor = create_sensors(args.enviro, args.temperature_factor)         *)
(* of sensors/factory.py create_sensors(args, enviro=False).                 *)

\* Python values passed at line 236: args.enviro is a bool (type=str_to_bool),
\* args.temperature_factor a float or None (0 stands for both 0.0 and None)
PyBool(b) == [type |-> "bool", value |-> b]
PyFloat(x) == [type |-> "float", value |-> x]

\* only the argparse Namespace has the attribute temperature_factor
HasTemperatureFactor(obj) == obj.type = "Namespace"

\* truth value of a Python object
Truthy(obj) == IF obj.type = "bool" THEN obj.value ELSE obj.value # 0

\* factory.create_sensors(args, enviro) called with the Python values 'args'
\* and 'enviro': line 13 evaluates args.temperature_factor, line 16 tests
\* 'not enviro'
create_sensors_call(args, enviro_) ==
    IF ~HasTemperatureFactor(args)
    THEN [raised |-> "AttributeError", sensors |-> <<>>, factor |-> 0]
    ELSE [raised |-> "none", sensors |-> create_sensors(Truthy(enviro_)),
          factor |-> args.value]

InitStartup ==
    /\ enviro \in BOOLEAN
    /\ temperature_factor \in TemperatureFactors
    /\ period \in {0 - MaxPeriod, 0, MaxPeriod}
    /\ influxdb \in BOOLEAN
    /\ luftdaten \in BOOLEAN
    /\ sensors = <<>>
    /\ pc = "start"
    /\ cycles = 0
    /\ hw = AllDevicesOk
    /\ sample = 1
    /\ values = EmptyDict
    /\ sensor_idx = 1
    /\ calls = <<>>
    /\ rets = <<>>
    /\ bus_log = <<>>
    /\ bus_busy = {}
    /\ bus_plan = <<>>
    /\ update_ok = TRUE
    /\ set_idx = 1
    /\ gauge = [k \in AllKeys |-> 0]
    /\ hist_count = [k \in GasPmKeys |-> 0]
    /\ ERROR_COUNTER = 0
    /\ LOOP_UPDATE_TIME = 0
    /\ time_incs = 0
    /\ now = 0
    /\ time_ref = 0
    /\ sleep_time = 0
    /\ update_start = 0
    /\ slept = <<>>
    /\ work = 0
    /\ short_run = TRUE
    /\ no_sleep_run = 0
    /\ NoSinkStarted

\* lines 208-234: the posting threads of the switches that are set are
\* started, then the HTTP server
StartThreads ==
    /\ pc = "start"
    /\ sink_pc' = [t \in Sinks |->
                     IF (t = INFLUXDB /\ influxdb) \/ (t = LUFTDATEN /\ luftdaten)
                     THEN "sleep" ELSE "off"]
    /\ pc' = "create_sensors"
    /\ UNCHANGED <<config, bus, limiter, harness, aggregate, registry, cycles, set_idx, now,
                   update_start, sink_idx, sensor_data, sink_posts, sink_errors,
                   sink_slept, post_result>>

\* line 236: sensor = create_sensors(args.enviro, args.temperature_factor);
\* an exception it raises is not caught, the main thread ends
CreateSensors ==
    /\ pc = "create_sensors"
    /\ LET r == create_sensors_call(PyBool(enviro), PyFloat(temperature_factor))
       IN  IF r.raised = "none"
           THEN /\ sensors' = r.sensors
                /\ temperature_factor' = r.factor
                /\ pc' = "loop"
           ELSE /\ UNCHANGED <<sensors, temperature_factor>>
                /\ pc' = "terminated"
    /\ UNCHANGED <<bus, enviro, period, influxdb, luftdaten, sinks, limiter, harness, aggregate,
                   registry, cycles, set_idx, now, update_start>>

NextStartup ==
    \/ StartThreads
    \/ CreateSensors
    \/ InfluxdbSleep
    \/ InfluxdbIteration
    \/ LuftdatenSleep
    \/ LuftdatenIteration

SpecStartup == InitStartup /\ [][NextStartup]_vars

----------------------------------------------------------------------------
(* Properties *)

\* the operations adapter s performed in the current aggregate update
OpsOf(s) ==
    LET mine == SelectSeq(bus_log, LAMBDA x : x.sensor = s)
    IN  [i \in 1..Len(mine) |-> mine[i].op]

\* some adapter called in the current iteration returned false
SomeAdapterFailed == \E i \in 1..Len(rets) : ~rets[i]

\* the aggregate update of the current iteration has returned
UpdateReturned == pc \in {"check", "metrics", "end", "sleep", "terminated"}

\* C1: after an iteration in which an adapter reported a recoverable failure
\* (bus I/O error or read-timeout) and the aggregate update returned false,
\* the loop does not terminate.
C1_LoopSurvivesFailedUpdate ==
    (UpdateReturned /\ SomeAdapterFailed /\ ~update_ok) => pc # "terminated"

\* C2: when the aggregate update returns, the update of every member adapter
\* has been called exactly once, in construction order, also when an earlier
\* adapter returned false.
C2_EveryAdapterUpdatedOnce ==
    pc = "check" => calls = sensors

\* C3: the aggregate update returns true iff every member adapter returns true
\* for that call; for every combination of device conditions it returns true
\* iff no member's device fails.
C3_AggregateIsConjunction ==
    pc = "check" =>
        /\ update_ok <=> (Len(rets) = Len(sensors) /\ \A i \in 1..Len(rets) : rets[i])
        /\ update_ok <=> (\A i \in 1..Len(sensors) : hw[sensors[i]] = "ok")
        /\ ~update_ok <=> SomeAdapterFailed

C3_Witness ==
    /\ pc = "check"
    /\ ~update_ok
    /\ Len(sensors) = 4
    /\ hw[BME280] = "ok"
    /\ hw[LTR559] = "ok"
    /\ hw[MICS6814] = "ioerror"
    /\ hw[PMS5003] = "timeout"

\* C4: the aggregate never rolls back or clears the values map: a key written
\* during an aggregate update keeps its value until the update returns, and
\* at the return every key of every adapter that returned true is present.
C4_NoRollback ==
    /\ [](pc = "check" =>
            \A i \in 1..Len(calls) :
                rets[i] => \A k \in Range(OwnedKeys(calls[i])) : k \in DOMAIN values)
    /\ [][pc = "update" =>
            \A k \in DOMAIN values : k \in DOMAIN values' /\ values'[k] = values[k]]_vars

C4_Witness ==
    /\ pc = "check"
    /\ ~update_ok
    /\ calls = <<BME280, LTR559, MICS6814, PMS5003>>
    /\ DOMAIN values = AllKeys \ Range(OwnedKeys(PMS5003))

\* C5: an adapter whose read fails with a bus I/O error returns false to its
\* caller without raising, and performs the bus recovery exactly once: the
\* rescan, then the settle delay of 2 seconds, both within the call; the
\* adapters of the aggregate are not re-created.
C5_BusErrorRecovery ==
    /\ [](\A i \in 1..Len(calls) :
            hw[calls[i]] = "ioerror" =>
                /\ ~rets[i]
                /\ OpsOf(calls[i]) = <<"read", "rescan", "settle">>)
    /\ [][(pc = "update" /\ hw[sensors[sensor_idx]] = "ioerror") =>
            /\ now' >= now + 2
            /\ pc' = "check"
            /\ calls' = Append(calls, sensors[sensor_idx])
            /\ sensors' = sensors]_vars

C5_Witness ==
    /\ pc = "check"
    /\ calls = <<BME280, LTR559, MICS6814, PMS5003>>
    /\ hw[PMS5003] = "ioerror"
    /\ OpsOf(PMS5003) = <<"read", "rescan", "settle">>
    /\ now >= 2

\* C6: the particulate adapter whose read raises the read-timeout returns
\* false without raising and without bus recovery (no rescan, no settle
\* delay); it performs the bus recovery only for a bus I/O error.
C6_TimeoutWithoutRecovery ==
    /\ [](\A i \in 1..Len(calls) :
            calls[i] = PMS5003 =>
                /\ hw[PMS5003] = "timeout" => (~rets[i] /\ OpsOf(PMS5003) = <<"read">>)
                /\ ("rescan" \in Range(OpsOf(PMS5003))) <=> (hw[PMS5003] = "ioerror")
                /\ ("settle" \in Range(OpsOf(PMS5003))) <=> (hw[PMS5003] = "ioerror"))
    /\ [][(pc = "update" /\ sensors[sensor_idx] = PMS5003 /\ hw[PMS5003] = "timeout") =>
            /\ now' - now <= MaxReadTime
            /\ pc' = "check"]_vars

C6_Witness ==
    /\ pc = "check"
    /\ calls = <<BME280, LTR559, MICS6814, PMS5003>>
    /\ hw[PMS5003] = "timeout"
    /\ ~update_ok
    /\ bus_log[Len(bus_log)] = [sensor |-> PMS5003, op |-> "read"]

\* C7: while every iteration takes less than one period, the limiter starts
\* each iteration at its reference time (late by at most the overshoot of
\* time.sleep), the reference advances by exactly one period per iteration,
\* so successive starts are one period apart up to that overshoot; and the
\* limiter never calls time.sleep with a negative duration.
C7_FixedPeriodCadence ==
    /\ [](\A i \in 1..Len(slept) : slept[i] >= 0)
    /\ []((pc = "end" /\ short_run) =>
            (update_start - time_ref) \in 0..MaxOversleep)
    /\ [][(pc = "end" /\ short_run) => time_ref' = time_ref + period]_vars
    /\ [][(pc = "loop" /\ cycles >= 1 /\ short_run') =>
            (update_start' - update_start) \in
                (period - MaxOversleep)..(period + MaxOversleep)]_vars

C7_Witness ==
    /\ pc = "end"
    /\ short_run
    /\ cycles = 4
    /\ period = 2
    /\ work = 1
    /\ update_start = 3 * period

\* C8: after every iteration_end, whatever the iteration took, the reference
\* time lags the completion time of the iteration by at most 100 periods.
C8_DriftCap ==
    pc = "sleep" => now - time_ref <= 100 * period

C8_Witness ==
    /\ pc = "sleep"
    /\ work > 100 * period
    /\ now - time_ref = 100 * period

\* C9: the error counter never decreases and is never reset; it increases by
\* exactly 1 in an iteration whose aggregate update returned false and not at
\* all in one whose update returned true.
C9_ErrorCounter ==
    [][/\ ERROR_COUNTER' >= ERROR_COUNTER
       /\ (pc = "check" /\ ~update_ok) => ERROR_COUNTER' = ERROR_COUNTER + 1
       /\ (pc = "check" /\ update_ok)  => ERROR_COUNTER' = ERROR_COUNTER
       /\ pc # "check" => ERROR_COUNTER' = ERROR_COUNTER]_vars

C9_Witness ==
    /\ cycles = 2
    /\ pc = "metrics"
    /\ ~update_ok
    /\ hw[LTR559] = "ioerror"
    /\ hw[MICS6814] = "ioerror"
    /\ hw[PMS5003] = "timeout"
    /\ ERROR_COUNTER = 1

\* C10: in every iteration, whether the aggregate update succeeded or failed,
\* the update-time counter is incremented exactly once.
C10_UpdateTimeCountedEveryCycle ==
    pc \in {"sleep", "loop", "terminated"} => time_incs = cycles

\* C11: every snapshot a posting thread obtains from collect_all_data is a
\* point-in-time copy: whenever collect_all_data has returned and every
\* Gauge the loop sets had been set, the values are those of one iteration,
\* never a mix of two iterations.
C11_SnapshotFromOneCycle ==
    \A t \in Sinks :
        (/\ sink_pc[t] = "post"
         /\ \A i \in DOMAIN CollectAllData :
               CollectAllData[i].gauge \in SetKeys(enviro) =>
                   sensor_data[t][CollectAllData[i].name] # 0) =>
            \E n \in 1..MaxSample :
                sensor_data[t] = RegistryAfterCycle(sensors, n, temperature_factor)

\* the main thread is at the head of its loop or can take the next step of
\* the iteration it is in
SamplerRuns == pc = "loop" \/ ENABLED (GaugeSet \/ HistogramObserve \/ IterationEnd \/ Sleep)

\* C12: when a post attempt of a posting thread fails (the write or a post
\* raises, or a response is not ok), the failure is logged with
\* logging.error, the thread does not terminate but returns to the head of
\* its loop, every sleep of the thread is for its own fixed interval (no
\* backoff), and the attempt changes nothing of the sampling loop, of the
\* registry or of the other posting thread, which stay able to take their
\* next step.
C12_SinkFailureIsContained ==
    /\ [](\A t \in Sinks :
            /\ sink_pc[t] \in {"sleep", "collect", "post"}
            /\ \A i \in 1..Len(sink_slept[t]) : sink_slept[t][i] = time_between_posts(t))
    /\ [][\A t \in Sinks :
            (sink_posts'[t] # sink_posts[t] /\ post_result'[t] # "ok") =>
                /\ sink_errors'[t] = sink_errors[t] + 1
                /\ sink_pc'[t] = "sleep"
                /\ UNCHANGED <<sampler, limiter, aggregate, registry>>
                /\ \A u \in Sinks \ {t} :
                      /\ sink_pc'[u] = sink_pc[u]
                      /\ sink_posts'[u] = sink_posts[u]
                      /\ sink_errors'[u] = sink_errors[u]
                      /\ sink_slept'[u] = sink_slept[u]]_vars
    /\ [][\A t \in Sinks :
            (sink_pc[t] = "sleep" /\ sink_pc'[t] # "sleep") =>
                /\ sink_pc'[t] = "collect"
                /\ sink_slept'[t] = Append(sink_slept[t], time_between_posts(t))]_vars
    /\ [](\A t \in Sinks :
            (post_result[t] \notin {"none", "ok"}) =>
                /\ SamplerRuns
                /\ sink_posts[t] < MaxPosts => ENABLED SinkSleep(t) \/ sink_pc[t] # "sleep"
                /\ \A u \in Sinks \ {t} :
                      sink_posts[u] < MaxPosts => ENABLED (SinkSleep(u) \/ SinkIteration(u)))

C12_Witness ==
    /\ post_result[INFLUXDB] = "exception"
    /\ sink_posts[INFLUXDB] = 1
    /\ sink_errors[INFLUXDB] = 1
    /\ sink_pc[INFLUXDB] = "collect"
    /\ sink_slept[INFLUXDB] = <<INFLUXDB_TIME_BETWEEN_POSTS, INFLUXDB_TIME_BETWEEN_POSTS>>
    /\ post_result[LUFTDATEN] = "failed"
    /\ sink_posts[LUFTDATEN] = 2
    /\ sink_errors[LUFTDATEN] = 2
    /\ cycles = 2
    /\ pc = "metrics"

\* the statements of the main program up to line 236 have been executed
StartupDone == pc \notin {"start", "create_sensors"}

\* C13: the aggregate built at startup follows the device-variant flag as
\* the main program passes it: with the flag set it holds the weather and
\* the light adapter, in that order, with the flag unset the weather, light,
\* gas and particulate adapters, in that order, and the main thread goes on
\* to the sampling loop with it.
C13_AggregateFollowsFlag ==
    StartupDone =>
        /\ pc # "terminated"
        /\ sensors = IF enviro THEN <<BME280, LTR559>>
                     ELSE <<BME280, LTR559, MICS6814, PMS5003>>

\* number of bus operations 'op' in the current aggregate update
BusOps(op) == Cardinality({i \in 1..Len(bus_log) : bus_log[i].op = op})

\* the keys of all adapters except s
KeysNotOf(s) == AllKeys \ Range(OwnedKeys(s))

\* in this iteration only the device of adapter s fails, with 'outcome'
OnlyFails(s, outcome) ==
    /\ hw[s] = outcome
    /\ \A o \in Adapters \ {s} : hw[o] = "ok"

\* C14: in an iteration of an Enviro+ (flag unset) in which the weather
\* adapter fails with a bus I/O error and the other three devices can be
\* read, when the aggregate update has returned: the bus recovery (rescan,
\* settle delay) has run exactly once, the error counter is incremented by
\* exactly 1, the three weather keys are absent from values and the light,
\* proximity, gas and particulate keys are present.
C14_WeatherBusError ==
    [][(pc = "check" /\ ~enviro /\ OnlyFails(BME280, "ioerror")) =>
          /\ BusOps("rescan") = 1
          /\ BusOps("settle") = 1
          /\ ERROR_COUNTER' = ERROR_COUNTER + 1
          /\ \A k \in Range(OwnedKeys(BME280)) : k \notin DOMAIN values
          /\ \A k \in KeysNotOf(BME280) : k \in DOMAIN values]_vars

\* C15: in an iteration of an Enviro+ in which the particulate adapter gets
\* its read-timeout and the other three adapters succeed: the aggregate
\* update returns false, the error counter is incremented by exactly 1, no
\* bus recovery runs, the three pm keys are absent from values and the other
\* eight keys are present.
C15_ParticulateTimeout ==
    [][(pc = "check" /\ ~enviro /\ OnlyFails(PMS5003, "timeout")) =>
          /\ ~update_ok
          /\ ERROR_COUNTER' = ERROR_COUNTER + 1
          /\ BusOps("rescan") = 0
          /\ BusOps("settle") = 0
          /\ DOMAIN values = KeysNotOf(PMS5003)
          /\ Cardinality(DOMAIN values) = 8]_vars

C15_Witness ==
    /\ pc = "metrics"
    /\ ~enviro
    /\ OnlyFails(PMS5003, "timeout")
    /\ ~update_ok
    /\ ERROR_COUNTER = 1
    /\ calls = <<BME280, LTR559, MICS6814, PMS5003>>
    /\ DOMAIN values = KeysNotOf(PMS5003)

\* C16: in an iteration of an Enviro+ in which all four adapters succeed:
\* values is created empty at the start of the iteration, holds exactly the
\* 11 keys when the aggregate update has returned, the error counter does
\* not change, and the update-time counter is incremented by the time from
\* the start of the iteration to iteration_end.
C16_AllAdaptersSucceed ==
    /\ [][pc = "loop" => values' = EmptyDict]_vars
    /\ []((UpdateReturned /\ ~enviro /\ hw = AllDevicesOk) =>
            /\ DOMAIN values = AllKeys
            /\ Cardinality(DOMAIN values) = 11
            /\ pc # "terminated")
    /\ [][(~enviro /\ hw' = AllDevicesOk /\ pc # "loop") =>
            ERROR_COUNTER' = ERROR_COUNTER]_vars
    /\ [][(pc = "end" /\ ~enviro /\ hw = AllDevicesOk) =>
            LOOP_UPDATE_TIME' = LOOP_UPDATE_TIME + (now - update_start)]_vars

C16_Witness ==
    /\ pc = "sleep"
    /\ ~enviro
    /\ hw = AllDevicesOk
    /\ cycles = 2
    /\ DOMAIN values = AllKeys
    /\ ERROR_COUNTER = 0
    /\ now - update_start = 4
    /\ LOOP_UPDATE_TIME = 6

\* C17: the limiter is selected by the sign of the configured period.  With
\* a period > 0 the loop runs the fixed-period limiter: iteration_end
\* computes the pending sleep and advances the reference, sleep calls
\* time.sleep when the pending sleep is positive.  With a period <= 0 it
\* runs the no-op limiter: it keeps no state, its sleep and end_sleep make no
\* time.sleep call and take no time in any iteration, and its iteration_end
\* returns the current time (the update time counted is the time since the
\* start of the iteration).
C17_LimiterBySign ==
    /\ [][(pc = "end" /\ period > 0) =>
            /\ sleep_time' = time_ref + period - now
            /\ time_ref' = Max(time_ref + period, now - MAX_LAG_PERIODS * period)]_vars
    /\ [][(pc = "sleep" /\ period > 0) =>
            slept' = IF sleep_time > 0 THEN <<sleep_time>> ELSE <<>>]_vars
    /\ [][period <= 0 => UNCHANGED <<time_ref, sleep_time, slept>>]_vars
    /\ [][(pc = "sleep" /\ period <= 0) => (now' = now /\ pc' = "loop")]_vars
    /\ [][(pc = "end" /\ period <= 0) =>
            LOOP_UPDATE_TIME' = LOOP_UPDATE_TIME + (now - update_start)]_vars
    /\ [](period <= 0 => (slept = <<>> /\ NoLoopRateLimiter_end_sleep = <<>>))

C17_Witness ==
    /\ period < 0
    /\ pc = "loop"
    /\ cycles = 2
    /\ slept = <<>>
    /\ time_ref = 0
    /\ now = 8
    /\ LOOP_UPDATE_TIME = now

\* the weather adapter has succeeded in the current iteration
WeatherWritten == calls # <<>> /\ calls[1] = BME280 /\ rets[1]

\* C18: when BME280Sensor.update succeeds it writes pressure = hPa * 100 and
\* humidity = percent / 100; with a factor f in (0,1) it reads the CPU
\* temperature 5 times and writes temperature_celsius = (T_raw - T_cpu * f) /
\* (1 - f), T_cpu being the average of the 5 samples; with f = 0 or unset it
\* writes T_raw itself and does not read the CPU temperature.
C18_TemperatureCompensation ==
    WeatherWritten =>
        LET raw   == BME280Reading(sample)
            f     == temperature_factor
            cpu   == [i \in 1..5 |-> CpuTemperatureFile(sample, i)]
            reads == Cardinality({i \in 1..Len(bus_log) : bus_log[i].op = "cpu_temperature"})
        IN  /\ values["pressure_pascals"] = raw.pressure * 100
            /\ values["relative_humidity"] * 100 = raw.humidity
            /\ f = 0 => (values["temperature_celsius"] = raw.temperature /\ reads = 0)
            /\ f # 0 =>
                  /\ reads = 5
                  \* with 5 * T_cpu = the sum of the samples, both sides times 5
                  /\ 5 * values["temperature_celsius"] * (1000 - f)
                        = 5 * raw.temperature * 1000
                            - (cpu[1] + cpu[2] + cpu[3] + cpu[4] + cpu[5]) * f

C18_Witness ==
    /\ pc = "check"
    /\ temperature_factor = 500
    /\ sample = 2
    /\ WeatherWritten
    /\ BME280Reading(sample).temperature = 22000
    /\ values["temperature_celsius"] = 0 - 2750
    /\ values["pressure_pascals"] = 100200000
    /\ values["relative_humidity"] = 500

\* C19: an adapter's update is all-or-nothing: the call that returns false
\* leaves values as it found it, and none of the keys of an adapter that
\* returned false in this iteration is in values.
C19_AllOrNothing ==
    /\ [](\A i \in 1..Len(calls) :
            ~rets[i] => \A k \in Range(OwnedKeys(calls[i])) : k \notin DOMAIN values)
    /\ [][(pc = "update" /\ Len(rets') = Len(rets) + 1 /\ ~rets'[Len(rets')]) =>
            values' = values]_vars

C19_Witness ==
    /\ pc = "check"
    /\ ~enviro
    /\ cycles = 2
    /\ calls = <<BME280, LTR559>>
    /\ rets = <<TRUE, FALSE>>
    /\ hw[LTR559] = "ioerror"
    /\ DOMAIN values = Range(OwnedKeys(BME280))

\* the metric block has ended in this iteration, by reaching its end or by
\* the KeyError
MetricBlockLeft == pc \in {"end", "sleep", "terminated"}

\* C20: in every iteration, also one in which an adapter failed, every key
\* that is in values after the aggregate update has its value set on its
\* Gauge by the metric block of the same iteration.
C20_PresentKeysReachGauges ==
    MetricBlockLeft =>
        \A k \in DOMAIN values :
            /\ gauge[k] = values[k]
            /\ \E i \in 1..(set_idx - 1) :
                  MetricBlock(enviro)[i] = [kind |-> "set", key |-> k]

C20_Witness ==
    /\ pc = "terminated"
    /\ ~enviro
    /\ cycles = 2
    /\ hw[MICS6814] = "ioerror"
    /\ DOMAIN values = Range(OwnedKeys(BME280)) \cup Range(OwnedKeys(LTR559))
    /\ sample = 2
    /\ gauge["light_lux"] = 200000
    /\ gauge["gas_red_ohms"] = 401000
    /\ set_idx = 6

\* C21: the catch-up after a stall is bounded.  After an iteration of any
\* duration, while every later iteration has zero processing time, at most
\* 100 consecutive iterations pass in which the fixed-period limiter does not
\* sleep; the iteration after the 100th sleeps for a positive time.
C21_BoundedCatchUp ==
    /\ [](no_sleep_run <= MAX_LAG_PERIODS)
    /\ [][(pc = "sleep" /\ work = 0 /\ no_sleep_run = MAX_LAG_PERIODS) =>
            (Len(slept') = 1 /\ slept'[1] > 0)]_vars

C21_Witness ==
    /\ pc = "loop"
    /\ no_sleep_run = MAX_LAG_PERIODS
    /\ work = 0
    /\ Len(slept) = 1
    /\ slept[1] = period
    /\ period = 2
    /\ cycles > MAX_LAG_PERIODS + 1

\* C23: for the fixed-period limiter with p > 0, time.sleep returning no
\* earlier than asked, the reference time is never ahead of the clock at the
\* start of an iteration, so the sleep that iteration_end computes never
\* exceeds p, and every iteration_end advances the reference by at least p;
\* the reference never moves backwards.
C23_ReferenceNotAhead ==
    /\ [](pc = "loop" => time_ref <= now)
    /\ [](pc = "end" => time_ref <= update_start)
    /\ [](pc = "sleep" => sleep_time <= period)
    /\ [][pc = "end" => time_ref' >= time_ref + period]_vars
    /\ [][time_ref' >= time_ref]_vars

C23_Witness ==
    /\ pc = "loop"
    /\ cycles >= 2
    /\ period = 2
    /\ work = 0
    /\ sleep_time = period
    /\ slept = <<period>>
    /\ time_ref = now

\* C22: at most one bus operation is in progress in any reachable state.  The
\* operation in progress belongs to the adapter the sampling thread is
\* calling, the adapters are read in the order of the aggregate, a rescan is
\* followed by the settle delay of the same adapter before any other operation
\* begins, and a step of a posting thread changes neither the bus nor the
\* state of the adapters or of the limiter.
C22_OneBusOperation ==
    /\ [](Cardinality(bus_busy) <= 1)
    /\ [](\A o \in bus_busy : pc = "bus" /\ o.sensor = sensors[sensor_idx])
    /\ [](\A i \in 1..Len(bus_log) : \A j \in i..Len(bus_log) :
            \E a \in 1..Len(sensors) : \E b \in a..Len(sensors) :
                sensors[a] = bus_log[i].sensor /\ sensors[b] = bus_log[j].sensor)
    /\ [](\A i \in 1..Len(bus_log) : bus_log[i].op = "rescan" =>
            LET settle == [sensor |-> bus_log[i].sensor, op |-> "settle"]
            IN  IF i < Len(bus_log)
                THEN bus_log[i + 1] = settle
                ELSE /\ pc = "bus"
                     /\ bus_busy \subseteq {settle}
                     /\ bus_busy = {} => (bus_plan # <<>> /\ Head(bus_plan) = settle))
    /\ [][sinks' # sinks => UNCHANGED <<aggregate, bus, limiter>>]_vars

C22_Witness ==
    /\ cycles = 2
    /\ \E s \in Adapters : bus_busy = {[sensor |-> s, op |-> "settle"]}
    /\ \E t \in Sinks : sink_pc[t] = "collect" /\ sink_posts[t] = 1

====
